---- MODULE Spec2Model ----
(***************************************************************************)
(* Model of the ARGO profile analytics and NetCDF codec of floatchat.      *)
(*                                                                         *)
(* Units.  Pressure is an integer number of dbar.  Temperature is an       *)
(* integer number of tenths of a degree Celsius, so the code's thresholds  *)
(* 0.2 and 0.5 degC are 2 and 5.  A gradient |dT/dP| is kept as an exact    *)
(* fraction over a common denominator (see GradScale), so that the rolling *)
(* mean and the comparisons of the code are computed without rounding.     *)
(* A missing value (NaN / None) is the sentinel NaN.                       *)
(***************************************************************************)
EXTENDS Integers, Sequences, FiniteSets, TLC

VARIABLES
    cols,       \* columns present in the DataFrame handed to the analytics
    df,         \* rows of that DataFrame, in caller order
    norm,       \* result of sort / dropna / drop_duplicates on df
    renorm,     \* result of the same three steps applied to norm
    result,     \* return value of calculate_thermocline_advanced(df)
    mld,        \* return value of calculate_mixed_layer_depth(df)
    wm,         \* return value of identify_water_masses_advanced(df)
    table,      \* DataFrame handed to export_to_netcdf
    archive,    \* the NetCDF file written by export_to_netcdf
    decoded,    \* outcome of the decode call on the archive
    ds,         \* NetCDFExtractor.ds: the dataset handle of the decode call
    arg,        \* argument of a helper called on its own
    ret,        \* what that helper returned
    tool_handlers,  \* MCPProtocol.tool_handlers: what each registered handler does
    response,   \* the last MCPToolResult, with its to_dict()
    csv,        \* the CSV file handed to the loader, and where saving fails
    db,         \* rows of argo_profiles committed to the database
    session,    \* the SQLAlchemy session of the load
    load_result \* outcome of the load call

vars ==
    <<cols, df, norm, renorm, result, mld, wm, table, archive, decoded, ds, arg, ret,
      tool_handlers, response, csv, db, session, load_result>>
analyticsVars == <<cols, df, norm, renorm, result, mld, wm>>
codecVars == <<table, archive, decoded, ds>>
callVars == <<arg, ret>>
mcpVars == <<tool_handlers, response>>
loaderVars == <<csv, db, session, load_result>>

NaN == -99999
None == [none |-> TRUE]
Some(v) == [val |-> v]

----------------------------------------------------------------------------
(* Bounds of the model *)

MaxRows == 3          \* rows of an arbitrary (unsorted, duplicated) input
MaxLevels == 11       \* levels of a structured profile
MaxTempSteps == 2     \* temperature changes along a structured profile

----------------------------------------------------------------------------
(* Generic helpers *)

Abs(x) == IF x < 0 THEN -x ELSE x

SetMin(S) == CHOOSE x \in S : \A y \in S : x <= y
SetMax(S) == CHOOSE x \in S : \A y \in S : x >= y

RECURSIVE Gcd(_, _)
Gcd(a, b) == IF b = 0 THEN a ELSE Gcd(b, a % b)

Lcm(a, b) == (a \div Gcd(a, b)) * b

RECURSIVE LcmOf(_)
LcmOf(S) == IF S = {} THEN 1
            ELSE LET x == CHOOSE y \in S : TRUE IN Lcm(x, LcmOf(S \ {x}))

RECURSIVE SumOver(_, _)
SumOver(f, S) == IF S = {} THEN 0
                 ELSE LET x == CHOOSE y \in S : TRUE IN f[x] + SumOver(f, S \ {x})

\* all orderings of a finite set, as sequences
Orderings(S) ==
    {f \in [1..Cardinality(S) -> S] : \A i, j \in 1..Cardinality(S) : i # j => f[i] # f[j]}

----------------------------------------------------------------------------
(* pandas steps of the normalisation (profile_analytics.py 377-379) *)

PressureKeys(s) == {s[i].pressure : i \in 1..Len(s)} \ {NaN}
RowsAt(s, k) == {i \in 1..Len(s) : s[i].pressure = k}

\* index orders that df.sort_values('pressure') may produce: ascending
\* pressure, missing pressures last; the default sort kind is not stable, so
\* rows of equal pressure come out in any order
RECURSIVE SortedIndex(_, _)
SortedIndex(s, keys) ==
    IF keys = {} THEN Orderings(RowsAt(s, NaN))
    ELSE LET k == SetMin(keys) IN
         {a \o b : a \in Orderings(RowsAt(s, k)), b \in SortedIndex(s, keys \ {k})}

sort_values(s) ==
    {[i \in 1..Len(s) |-> s[ix[i]]] : ix \in SortedIndex(s, PressureKeys(s))}

HasPT(r) == r.pressure # NaN /\ r.temperature # NaN

\* a dropna that looks at the temperature column only
HasT(r) == r.temperature # NaN
dropna_temperature_only(s) == SelectSeq(s, HasT)

dropna(s) == SelectSeq(s, HasPT)

\* a de-duplication that stops after removing one row
drop_duplicates_once(s) ==
    LET dups == {i \in 1..Len(s) : \E j \in 1..(i-1) : s[j].pressure = s[i].pressure}
    IN IF dups = {} THEN s
       ELSE LET d == SetMin(dups) IN
            [i \in 1..(Len(s) - 1) |-> IF i < d THEN s[i] ELSE s[i + 1]]

\* keep='first': a row survives iff no earlier row has its pressure
drop_duplicates(s) ==
    LET keep == {i \in 1..Len(s) : \A j \in 1..(i-1) : s[j].pressure # s[i].pressure}
        RECURSIVE pick(_)
        pick(i) == IF i > Len(s) THEN <<>>
                   ELSE IF i \in keep THEN <<s[i]>> \o pick(i + 1) ELSE pick(i + 1)
    IN pick(1)

\* the three steps on an already sorted frame
NormalizeSorted(s) == drop_duplicates(dropna(s))

\* every frame the three steps can produce from d
Normalize(d) == {NormalizeSorted(s) : s \in sort_values(d)}

----------------------------------------------------------------------------
(* Arbitrary short inputs: any order, duplicates, missing values *)

RawPressures == {10, 20, NaN}
RawTemperatures == {200, 180, NaN}
RawRow == [pressure : RawPressures, temperature : RawTemperatures]

RECURSIVE SeqsUpTo(_, _)
SeqsUpTo(S, n) == IF n = 0 THEN {<<>>}
                  ELSE LET shorter == SeqsUpTo(S, n - 1) IN
                       shorter \cup {Append(q, x) : q \in {t \in shorter : Len(t) = n - 1}, x \in S}

AllCols == {"pressure", "temperature"}

InitNorm ==
    /\ cols = AllCols
    /\ df \in SeqsUpTo(RawRow, MaxRows)
    /\ norm = None
    /\ renorm = None
    /\ result = None
    /\ mld = None
    /\ wm = None
    /\ table = None /\ archive = None /\ decoded = None /\ ds = None
    /\ arg = None /\ ret = None
    /\ tool_handlers = None /\ response = None
    /\ csv = None /\ db = None /\ session = None /\ load_result = None

DoNormalize ==
    /\ norm = None
    /\ \E n \in Normalize(df) : norm' = Some(n)
    /\ UNCHANGED <<cols, df, renorm, result, mld, wm, codecVars, callVars, mcpVars, loaderVars>>

DoRenormalize ==
    /\ norm # None
    /\ renorm = None
    /\ \E n \in Normalize(norm.val) : renorm' = Some(n)
    /\ UNCHANGED <<cols, df, norm, result, mld, wm, codecVars, callVars, mcpVars, loaderVars>>

NextNorm == DoNormalize \/ DoRenormalize

SpecNorm == InitNorm /\ [][NextNorm]_vars

----------------------------------------------------------------------------
(* calculate_thermocline_advanced (profile_analytics.py 360-519) *)

MinLevelsOld == 5          \* the limit of the superseded calculate_thermocline
MinLevelsRequired == 10    \* len(df) < 10
AltThreshold == 5          \* 0.5 degC, temperature-difference method
MldThreshold == 2          \* 0.2 degC, mixed layer criterion
MldDefault == 10           \* the 10.0 dbar returned when no level exceeds 0.2
SeasonalLimit == 100       \* thermocline_depth < 100
InversionFloor == 50       \* inversions are looked for below 50 dbar
g_x100 == 981              \* g = 9.81
rho_0 == 1025              \* reference density
alpha_x10000 == 2          \* alpha = 2e-4

Failure(msg) == [success |-> FALSE, error |-> msg]

pressure_diff(N, i) == N[i].pressure - N[i - 1].pressure
temp_diff(N, i) == N[i].temperature - N[i - 1].temperature

\* common denominator of the gradients of one profile
GradScale(N) == LcmOf({pressure_diff(N, i) : i \in 2..Len(N)})

\* a gradient that keeps the pairs whose pressure step is 1 or less
temp_gradient_no_cutoff(N, L, i) ==
    IF i > 1 /\ pressure_diff(N, i) > 0
    THEN Abs(temp_diff(N, i)) * (L \div pressure_diff(N, i))
    ELSE 0

\* df['temp_gradient'], times the common denominator L: |dT/dP| where the
\* pressure step exceeds 1, and 0 elsewhere (the first row, whose diff is
\* NaN, included)
temp_gradient(N, L, i) ==
    IF i > 1 /\ pressure_diff(N, i) > 1
    THEN Abs(temp_diff(N, i)) * (L \div pressure_diff(N, i))
    ELSE 0

\* df['temp_gradient_smooth'], times 6: centred rolling mean over 3 rows of
\* the column g with min_periods = 1 (the window is cut at both ends)
temp_gradient_smooth(g, i) ==
    LET w == {i - 1, i, i + 1} \cap DOMAIN g
    IN SumOver(g, w) * (6 \div Cardinality(w))

\* a selection that forgets to exclude the surface and bottom rows
middle_idx_all(N) == 1..Len(N)

\* df.iloc[2:-2] as row positions
middle_idx(N) == 3..(Len(N) - 2)

\* an idxmax that returns the last row holding the maximum
idxmax_last(sm, S) == SetMax({i \in S : \A j \in S : sm[j] <= sm[i]})

\* Series.idxmax: the first row that holds the maximum
idxmax(sm, S) == SetMin({i \in S : \A j \in S : sm[j] <= sm[i]})

\* a criterion that also accepts a difference equal to th
FirstBeyond_inclusive(N, th) ==
    LET hit == {i \in 1..Len(N) : Abs(N[i].temperature - N[1].temperature) >= th}
    IN IF hit = {} THEN NaN ELSE N[SetMin(hit)].pressure

\* first pressure whose temperature differs from the surface by more than th
FirstBeyond(N, th) ==
    LET hit == {i \in 1..Len(N) : Abs(N[i].temperature - N[1].temperature) > th}
    IN IF hit = {} THEN NaN ELSE N[SetMin(hit)].pressure

\* a cross-check depth that falls back to the default mixed layer depth
thermocline_depth_alt_default(N, thermocline_depth) ==
    LET alt == FirstBeyond(N, AltThreshold)
    IN IF alt = NaN THEN MldDefault ELSE alt

\* line 413: the first pressure more than 0.5 degC away from the surface,
\* else the maximum-gradient depth
thermocline_depth_alt(N, thermocline_depth) ==
    LET alt == FirstBeyond(N, AltThreshold)
    IN IF alt = NaN THEN thermocline_depth ELSE alt

\* _classify_thermocline_strength; the gradient is num / (10 * den) degC/dbar
_classify_thermocline_strength(num, den) ==
    IF 2 * num < den THEN "weak"                \* gradient < 0.05
    ELSE IF 2 * num < 3 * den THEN "moderate"   \* gradient < 0.15
    ELSE IF num < 3 * den THEN "strong"         \* gradient < 0.30
    ELSE "very_strong"

\* a mapping that reports "high" only above a score of 7
_calculate_thermocline_confidence_above_7(N, num, den) ==
    LET n == Len(N)
        points == IF n > 50 THEN 3 ELSE IF n > 20 THEN 2 ELSE IF n > 10 THEN 1 ELSE 0
        grad == IF 2 * num > 3 * den THEN 3
                ELSE IF 5 * num > 4 * den THEN 2
                ELSE IF 5 * num > 2 * den THEN 1
                ELSE 0
        span == N[n].pressure - N[1].pressure
        res == IF span < 5 * (n - 1) THEN 2 ELSE IF span < 10 * (n - 1) THEN 1 ELSE 0
        score == points + grad + res
    IN IF score > 7 THEN "high" ELSE IF score >= 4 THEN "medium" ELSE "low"

\* _calculate_thermocline_confidence
_calculate_thermocline_confidence(N, num, den) ==
    LET n == Len(N)
        points == IF n > 50 THEN 3 ELSE IF n > 20 THEN 2 ELSE IF n > 10 THEN 1 ELSE 0
        grad == IF 2 * num > 3 * den THEN 3          \* strength > 0.15
                ELSE IF 5 * num > 4 * den THEN 2     \* strength > 0.08
                ELSE IF 5 * num > 2 * den THEN 1     \* strength > 0.04
                ELSE 0
        span == N[n].pressure - N[1].pressure        \* resolution = span / (n - 1)
        res == IF span < 5 * (n - 1) THEN 2 ELSE IF span < 10 * (n - 1) THEN 1 ELSE 0
        score == points + grad + res
    IN IF score >= 7 THEN "high" ELSE IF score >= 4 THEN "medium" ELSE "low"

\* the first inversion: for i in range(1, len(df) - 1)
InversionRows(N) ==
    {i \in 2..(Len(N) - 1) :
        /\ N[i].temperature > N[i - 1].temperature
        /\ N[i].pressure > InversionFloor}

\* a gradient taken as an increase of temperature with depth
dT_dz_unsigned(thermocline_strength) == thermocline_strength

\* line 438: dT_dz = -thermocline_strength
dT_dz(thermocline_strength) == 0 - thermocline_strength

\* a label that counts a vanishing N-squared as stable
stability_nonnegative(N_squared) == IF N_squared >= 0 THEN "stable" ELSE "unstable"

\* line 472
stability(N_squared) == IF N_squared > 0 THEN "stable" ELSE "unstable"

\* lines 387-519, on the normalised frame N (at least 10 rows).  N-squared
\* is (g / rho_0) * alpha * dT_dz * 100 = N_squared_num / N_squared_den,
\* the denominator being the product of the two entries of N_squared_den
ThermoclineOf(N) ==
    LET n == Len(N)
        L == GradScale(N)
        g == [i \in 1..n |-> temp_gradient(N, L, i)]
        sm == [i \in 1..n |-> temp_gradient_smooth(g, i)]
        den == 6 * L
        max_grad_idx == idxmax(sm, middle_idx(N))
        thermocline_depth == N[max_grad_idx].pressure
        thermocline_strength == sm[max_grad_idx]
        zone == {i \in 1..n : 2 * sm[i] > thermocline_strength}
        zoneP == {N[i].pressure : i \in zone}
        first_mld == FirstBeyond(N, MldThreshold)
        N_squared == g_x100 * alpha_x10000 * dT_dz(thermocline_strength)
        inv == InversionRows(N)
    IN IF middle_idx(N) = {} THEN Failure("Insufficient middle layer data")
       ELSE
       [success |-> TRUE,
        thermocline_depth_dbar |-> thermocline_depth,
        strength_num |-> thermocline_strength,
        strength_den |-> den,
        thermocline_strength_classification |->
            _classify_thermocline_strength(thermocline_strength, den),
        thermocline_width_m |->
            IF Cardinality(zone) > 1 THEN SetMax(zoneP) - SetMin(zoneP) ELSE 0,
        thermocline_depth_temp_criterion_dbar |->
            thermocline_depth_alt(N, thermocline_depth),
        mixed_layer_depth_dbar |->
            IF first_mld = NaN THEN MldDefault ELSE first_mld,
        is_seasonal |-> thermocline_depth < SeasonalLimit,
        N_squared_num |-> N_squared,
        N_squared_den |-> <<rho_0, 100000 * den>>,
        buoyancy_frequency_sq |-> IF N_squared > 0 THEN N_squared ELSE 0,
        stability |-> stability(N_squared),
        has_temperature_inversion |-> inv # {},
        inversion_depth_dbar |-> IF inv = {} THEN NaN ELSE N[SetMin(inv)].pressure,
        data_points |-> n,
        depth_coverage_m |-> N[n].pressure,
        confidence |-> _calculate_thermocline_confidence(N, thermocline_strength, den)]

\* every value calculate_thermocline_advanced can return for the frame (c, d)
calculate_thermocline_advanced(c, d) ==
    IF Len(d) = 0 \/ "pressure" \notin c \/ "temperature" \notin c
    THEN {Failure("Insufficient data for thermocline calculation")}
    ELSE {IF Len(N) < MinLevelsRequired
          THEN Failure("Not enough data points (minimum 10 required)")
          ELSE ThermoclineOf(N) : N \in Normalize(d)}

----------------------------------------------------------------------------
(* calculate_mixed_layer_depth (profile_analytics.py 592-604) *)

Raised(e) == [raised |-> TRUE, error |-> e]
Returned(v) == [raised |-> FALSE, value |-> v]

\* df['pressure'].max(): missing values are skipped
PressureMax(s) ==
    LET ps == PressureKeys(s) IN IF ps = {} THEN NaN ELSE SetMax(ps)

\* a fallback to the fixed 10 dbar instead of the deepest pressure
MixedLayerOf_fixed_default(s, threshold) ==
    LET surface_temp == s[1].temperature
        mld_mask == {i \in 1..Len(s) :
                        /\ surface_temp # NaN
                        /\ s[i].temperature # NaN
                        /\ s[i].temperature < surface_temp - threshold}
    IN IF mld_mask # {} THEN s[SetMin(mld_mask)].pressure ELSE MldDefault

MixedLayerOf(s, threshold) ==
    LET surface_temp == s[1].temperature
        mld_mask == {i \in 1..Len(s) :
                        /\ surface_temp # NaN
                        /\ s[i].temperature # NaN
                        /\ s[i].temperature < surface_temp - threshold}
    IN IF mld_mask # {} THEN s[SetMin(mld_mask)].pressure ELSE PressureMax(s)

calculate_mixed_layer_depth(c, d, threshold) ==
    IF "pressure" \notin c \/ "temperature" \notin c THEN {Raised("KeyError")}
    ELSE IF Len(d) = 0 THEN {Raised("IndexError")}
    ELSE {Returned(MixedLayerOf(s, threshold)) : s \in sort_values(d)}

----------------------------------------------------------------------------
(* Structured profiles: a pressure grid, a temperature that changes at a   *)
(* few levels, and optionally one defect of the input frame                *)

PressurePatterns == {<<0, 1>>, <<20, 10>>, <<4, 2>>}
StepDeltas == {-2, 3}
DefectKinds == {"none", "duplicate", "missing_temperature", "missing_pressure"}
ColumnSets == {AllCols, {"pressure"}, {"temperature"}}
DefaultThreshold == 5      \* threshold: float = 0.5
MldThresholds == {MldThreshold, DefaultThreshold}

StepSets(n) ==
    UNION {[S -> StepDeltas] : S \in {X \in SUBSET (2..n) : Cardinality(X) <= MaxTempSteps}}

BaseProfile(n, pat, st) ==
    [i \in 1..n |->
        [pressure |-> pat[1] + (i - 1) * pat[2],
         temperature |-> 200 + SumOver(st, {j \in DOMAIN st : j <= i})]]

WithDefect(b, kind) ==
    LET mid == (Len(b) + 1) \div 2 IN
    IF Len(b) = 0 \/ kind = "none" THEN b
    ELSE IF kind = "duplicate"
         THEN Append(b, [pressure |-> b[mid].pressure,
                         temperature |-> b[mid].temperature + 7])
    ELSE IF kind = "missing_temperature"
         THEN [b EXCEPT ![mid].temperature = NaN]
    ELSE [b EXCEPT ![Len(b)].pressure = NaN]

\* the defects and the missing columns are put on one pressure grid only
DefectPattern == <<20, 10>>

Init ==
    /\ \E n \in 0..MaxLevels, pat \in PressurePatterns, kind \in DefectKinds :
          /\ kind = "none" \/ pat = DefectPattern
          /\ \E st \in StepSets(n) : df = WithDefect(BaseProfile(n, pat, st), kind)
          /\ cols \in IF kind = "none" /\ pat = DefectPattern THEN ColumnSets ELSE {AllCols}
    /\ norm = None
    /\ renorm = None
    /\ result = None
    /\ mld = None
    /\ wm = None
    /\ table = None /\ archive = None /\ decoded = None /\ ds = None
    /\ arg = None /\ ret = None
    /\ tool_handlers = None /\ response = None
    /\ csv = None /\ db = None /\ session = None /\ load_result = None

CalcThermocline ==
    /\ result = None
    /\ result' \in calculate_thermocline_advanced(cols, df)
    /\ UNCHANGED <<cols, df, norm, renorm, mld, wm, codecVars, callVars, mcpVars, loaderVars>>

CalcMixedLayerDepth ==
    /\ mld = None
    /\ \E th \in MldThresholds : mld' \in calculate_mixed_layer_depth(cols, df, th)
    /\ UNCHANGED <<cols, df, norm, renorm, result, wm, codecVars, callVars, mcpVars, loaderVars>>

Next == CalcThermocline \/ CalcMixedLayerDepth

Spec == Init /\ [][Next]_vars

----------------------------------------------------------------------------
(* Synthetic profiles: constant temperature except for a drop of 2 degC    *)
(* that lies between 50 and 80 dbar                                        *)

ScenarioLevels == 12
ScenarioSpacings == {1, 2, 4, 5, 10}
\* the scenario: a drop of 2.0 degC between 50 and 80 dbar
Zone == [top |-> 50, bottom |-> 80, drop |-> 20]

UniformGrid(start, d) == [i \in 1..ScenarioLevels |-> start + (i - 1) * d]

\* 10 dbar spacing with one gap from 50 to 80 dbar after the k-th level
GapGrid(k) ==
    [i \in 1..ScenarioLevels |->
        IF i <= k THEN Zone.top - (k - i) * 10 ELSE Zone.bottom + (i - k - 1) * 10]

\* uniform grids that pass through the top or the bottom of the zone, and
\* the grids with the gap
ScenarioGrids ==
    {UniformGrid(anchor - j * d, d) :
        anchor \in {Zone.top, Zone.bottom}, j \in 0..(ScenarioLevels - 1), d \in ScenarioSpacings}
    \cup {GapGrid(k) : k \in 1..6}

\* the drop is taken in `parts` equal steps at the levels after `first`
ScenarioTemps(first, parts) ==
    [i \in 1..ScenarioLevels |->
        200 - (IF i <= first THEN 0
               ELSE IF i >= first + parts THEN Zone.drop
               ELSE (i - first) * (Zone.drop \div parts))]

ScenarioProfiles ==
    {[i \in 1..ScenarioLevels |-> [pressure |-> grid[i], temperature |-> ScenarioTemps(first, parts)[i]]] :
        grid \in {x \in ScenarioGrids : x[1] >= 0},
        first \in 1..(ScenarioLevels - 1), parts \in {1, 2}}

\* the temperature is constant except for a total drop of 2 degC between
\* the top and the bottom of the zone
IsDropScenario(d) ==
    /\ Len(d) = ScenarioLevels
    /\ d[1].temperature - d[Len(d)].temperature = Zone.drop
    /\ \A i \in 1..(Len(d) - 1) :
          /\ d[i].temperature >= d[i + 1].temperature
          /\ d[i].temperature # d[i + 1].temperature =>
                (Zone.top <= d[i].pressure /\ d[i + 1].pressure <= Zone.bottom)

InitScenario ==
    /\ cols = AllCols
    /\ df \in {d \in ScenarioProfiles : IsDropScenario(d)}
    /\ norm = None
    /\ renorm = None
    /\ result = None
    /\ mld = None
    /\ wm = None
    /\ table = None /\ archive = None /\ decoded = None /\ ds = None
    /\ arg = None /\ ret = None
    /\ tool_handlers = None /\ response = None
    /\ csv = None /\ db = None /\ session = None /\ load_result = None

NextScenario == CalcThermocline

SpecScenario == InitScenario /\ [][NextScenario]_vars

----------------------------------------------------------------------------
(* identify_water_masses_advanced and its helpers                          *)
(* (profile_analytics.py 15-285).  Salinity is an integer number of        *)
(* hundredths of a PSU.                                                    *)

WmCols == {"pressure", "temperature", "salinity"}

Envelope(name, t, sal, p) ==
    [name |-> name, temp_min |-> t[1], temp_max |-> t[2],
     sal_min |-> sal[1], sal_max |-> sal[2], depth_min |-> p[1], depth_max |-> p[2]]

water_mass_criteria ==
    << Envelope("Indian Ocean Surface Water (IOSW)", <<250, 300>>, <<3300, 3600>>, <<0, 100>>),
       Envelope("Arabian Sea High Salinity Water (ASHSW)", <<200, 280>>, <<3600, 3750>>, <<50, 300>>),
       Envelope("Bay of Bengal Low Salinity Water (BBLSW)", <<250, 300>>, <<3000, 3450>>, <<0, 100>>),
       Envelope("Indian Ocean Central Water (IOCW)", <<100, 200>>, <<3450, 3550>>, <<100, 700>>),
       Envelope("Indonesian Throughflow Water (ITW)", <<120, 180>>, <<3430, 3480>>, <<100, 500>>),
       Envelope("Antarctic Intermediate Water (AAIW)", <<30, 80>>, <<3380, 3450>>, <<500, 1500>>),
       Envelope("Indian Deep Water (IDW)", <<15, 30>>, <<3470, 3480>>, <<1500, 3500>>),
       Envelope("Antarctic Bottom Water (AABW)", <<-5, 20>>, <<3465, 3472>>, <<3500, 6000>>) >>

\* a range that leaves out its two bounds
Within_open(x, lo, hi) == x # NaN /\ x > lo /\ x < hi

\* a comparison with a missing value is False
Within(x, lo, hi) == x # NaN /\ x >= lo /\ x <= hi

\* the rows of s selected by the mask of lines 99-106
MaskRows(s, e) ==
    {i \in 1..Len(s) :
        /\ Within(s[i].temperature, e.temp_min, e.temp_max)
        /\ Within(s[i].salinity, e.sal_min, e.sal_max)
        /\ Within(s[i].pressure, e.depth_min, e.depth_max)}

\* a record whose thickness is taken from the bottom up
WaterMass_reversed_thickness(s, e) ==
    LET rows == MaskRows(s, e)
        ps == {s[i].pressure : i \in rows}
        ts == {s[i].temperature : i \in rows}
        ss == {s[i].salinity : i \in rows}
    IN [name |-> e.name,
        detected |-> TRUE,
        core_depth_sum |-> SumOver([i \in rows |-> s[i].pressure], rows),
        core_temperature_sum |-> SumOver([i \in rows |-> s[i].temperature], rows),
        core_salinity_sum |-> SumOver([i \in rows |-> s[i].salinity], rows),
        depth_range_m |-> <<SetMin(ps), SetMax(ps)>>,
        thickness_m |-> SetMin(ps) - SetMax(ps),
        temperature_range_C |-> <<SetMin(ts), SetMax(ts)>>,
        salinity_range_PSU |-> <<SetMin(ss), SetMax(ss)>>,
        measurements |-> Cardinality(rows),
        profile_rows |-> Len(s)]

\* lines 108-136: the record of one detected water mass; a mean is kept as
\* its sum, to be divided by `measurements`
WaterMass(s, e) ==
    LET rows == MaskRows(s, e)
        ps == {s[i].pressure : i \in rows}
        ts == {s[i].temperature : i \in rows}
        ss == {s[i].salinity : i \in rows}
    IN [name |-> e.name,
        detected |-> TRUE,
        core_depth_sum |-> SumOver([i \in rows |-> s[i].pressure], rows),
        core_temperature_sum |-> SumOver([i \in rows |-> s[i].temperature], rows),
        core_salinity_sum |-> SumOver([i \in rows |-> s[i].salinity], rows),
        depth_range_m |-> <<SetMin(ps), SetMax(ps)>>,
        thickness_m |-> SetMax(ps) - SetMin(ps),
        temperature_range_C |-> <<SetMin(ts), SetMax(ts)>>,
        salinity_range_PSU |-> <<SetMin(ss), SetMax(ss)>>,
        measurements |-> Cardinality(rows),
        profile_rows |-> Len(s)]     \* percentage_of_profile = measurements / profile_rows * 100

\* lines 93-136: one record per envelope that matches a row, in table order
RECURSIVE DetectFrom(_, _)
DetectFrom(s, k) ==
    IF k > Len(water_mass_criteria) THEN <<>>
    ELSE IF MaskRows(s, water_mass_criteria[k]) # {}
         THEN <<WaterMass(s, water_mass_criteria[k])>> \o DetectFrom(s, k + 1)
         ELSE DetectFrom(s, k + 1)

\* core_depth_m of a is smaller than that of b
ShallowerCore(a, b) == a.core_depth_sum * b.measurements < b.core_depth_sum * a.measurements

\* sorted(water_masses, key=core_depth_m): stable
RECURSIVE InsertByCore(_, _)
InsertByCore(sorted, x) ==
    IF sorted = <<>> THEN <<x>>
    ELSE IF ShallowerCore(x, Head(sorted)) THEN <<x>> \o sorted
    ELSE <<Head(sorted)>> \o InsertByCore(Tail(sorted), x)

RECURSIVE SortByCore(_)
SortByCore(w) ==
    IF w = <<>> THEN <<>>
    ELSE InsertByCore(SortByCore(SubSeq(w, 1, Len(w) - 1)), w[Len(w)])

\* a gap filter that leaves out the two boundary pressures
GapRows_strict(s, gap_start, gap_end) ==
    {i \in 1..Len(s) : s[i].pressure # NaN /\ s[i].pressure > gap_start /\ s[i].pressure < gap_end}

\* line 213: df[(pressure >= gap_start) & (pressure <= gap_end)]
GapRows(s, gap_start, gap_end) ==
    {i \in 1..Len(s) : Within(s[i].pressure, gap_start, gap_end)}

\* Series.min / Series.max skip missing values
MinSkipNa(S) == IF S \ {NaN} = {} THEN NaN ELSE SetMin(S \ {NaN})
MaxSkipNa(S) == IF S \ {NaN} = {} THEN NaN ELSE SetMax(S \ {NaN})

\* the terms of np.abs(col.diff() / pressure.diff()) over the rows `gap` of
\* s: "nan" terms are skipped by mean(), an "inf" term makes the mean infinite
GradTerms(s, gap, col) ==
    LET rows == [k \in 1..Cardinality(gap) |->
                    CHOOSE i \in gap : Cardinality({j \in gap : j < i}) = k - 1]
    IN [k \in 2..Cardinality(gap) |->
          LET a == s[rows[k - 1]]
              b == s[rows[k]]
              dp == b.pressure - a.pressure
          IN IF a[col] = NaN \/ b[col] = NaN \/ a.pressure = NaN \/ b.pressure = NaN
             THEN [kind |-> "nan", num |-> 0, den |-> 1]
             ELSE IF dp = 0
                  THEN IF a[col] = b[col] THEN [kind |-> "nan", num |-> 0, den |-> 1]
                       ELSE [kind |-> "inf", num |-> 0, den |-> 1]
             ELSE [kind |-> "num", num |-> Abs(b[col] - a[col]), den |-> dp]]

\* mean gradient > limit_num / limit_den (in the units of the column per dbar)
MeanExceeds(terms, limit_num, limit_den) ==
    LET used == {k \in DOMAIN terms : terms[k].kind = "num"}
        L == LcmOf({terms[k].den : k \in used})
        total == SumOver([k \in used |-> terms[k].num * (L \div terms[k].den)], used)
    IN IF \E k \in DOMAIN terms : terms[k].kind = "inf" THEN TRUE
       ELSE IF used = {} THEN FALSE
       ELSE total * limit_den > limit_num * L * Cardinality(used)

\* a classification without the test on the number of rows
_calculate_mixing_strength_any_length(s, gap) ==
    LET tg == GradTerms(s, gap, "temperature")
        sg == GradTerms(s, gap, "salinity")
    IN IF MeanExceeds(tg, 1, 1) \/ MeanExceeds(sg, 5, 1) THEN "strong_mixing"
       ELSE IF MeanExceeds(tg, 1, 2) \/ MeanExceeds(sg, 2, 1) THEN "moderate_mixing"
       ELSE "weak_mixing"

\* _calculate_mixing_strength (lines 229-245)
_calculate_mixing_strength(s, gap) ==
    LET tg == GradTerms(s, gap, "temperature")
        sg == GradTerms(s, gap, "salinity")
    IN IF Cardinality(gap) < 3 THEN "unknown"
       ELSE IF MeanExceeds(tg, 1, 1) \/ MeanExceeds(sg, 5, 1) THEN "strong_mixing"
       ELSE IF MeanExceeds(tg, 1, 2) \/ MeanExceeds(sg, 2, 1) THEN "moderate_mixing"
       ELSE "weak_mixing"

\* lines 203-225: the zone between the i-th and the (i+1)-th sorted mass
RECURSIVE ZonesFrom(_, _, _)
ZonesFrom(s, sorted_wm, i) ==
    IF i > Len(sorted_wm) - 1 THEN <<>>
    ELSE LET wm1 == sorted_wm[i]
             wm2 == sorted_wm[i + 1]
             gap_start == wm1.depth_range_m[2]
             gap_end == wm2.depth_range_m[1]
             gap == GapRows(s, gap_start, gap_end)
         IN (IF gap_end > gap_start /\ gap # {}
             THEN << [between |-> <<wm1.name, wm2.name>>,
                      depth_range_m |-> <<gap_start, gap_end>>,
                      thickness_m |-> gap_end - gap_start,
                      temperature_range_C |-> <<MinSkipNa({s[k].temperature : k \in gap}),
                                                MaxSkipNa({s[k].temperature : k \in gap})>>,
                      salinity_range_PSU |-> <<MinSkipNa({s[k].salinity : k \in gap}),
                                               MaxSkipNa({s[k].salinity : k \in gap})>>,
                      gradient_strength |-> _calculate_mixing_strength(s, gap)] >>
             ELSE <<>>) \o ZonesFrom(s, sorted_wm, i + 1)

\* the masses left in the order of the table of envelopes
sorted_wm_table_order(water_masses) == water_masses

\* line 200: sorted_wm = sorted(water_masses, key=core_depth_m)
sorted_wm(water_masses) == SortByCore(water_masses)

\* _identify_mixing_zones (lines 191-227)
_identify_mixing_zones(s, water_masses) ==
    IF Len(water_masses) < 2 THEN <<>>
    ELSE ZonesFrom(s, sorted_wm(water_masses), 1)

NameHas(w, word) ==
    \E k \in 1..Len(w) :
        w[k].name \in
            CASE word = "Surface" -> {"Indian Ocean Surface Water (IOSW)"}
              [] word = "Intermediate" -> {"Antarctic Intermediate Water (AAIW)"}
              [] word = "Deep" -> {"Indian Deep Water (IDW)"}
              [] word = "Bottom" -> {"Antarctic Bottom Water (AABW)"}

\* a classification that looks at the number of layers first
_classify_water_column_layers_first(w) ==
    LET n_layers == Len(w)
        has_surface == NameHas(w, "Surface")
        has_intermediate == NameHas(w, "Intermediate")
        has_deep == NameHas(w, "Deep") \/ NameHas(w, "Bottom")
    IN IF n_layers = 0 THEN [type |-> "unclassified"]
       ELSE [type |-> IF n_layers >= 4 THEN "multi_layered"
                      ELSE IF has_surface /\ has_intermediate /\ has_deep THEN "complete_stratification"
                      ELSE IF has_surface /\ has_intermediate THEN "upper_ocean_stratification"
                      ELSE IF has_surface /\ has_deep THEN "two_layer_system"
                      ELSE "simple_structure",
             n_layers |-> n_layers,
             complexity |-> IF n_layers >= 4 THEN "high"
                            ELSE IF n_layers >= 2 THEN "moderate" ELSE "low"]

\* _classify_water_column (lines 247-285)
_classify_water_column(w) ==
    LET n_layers == Len(w)
        has_surface == NameHas(w, "Surface")
        has_intermediate == NameHas(w, "Intermediate")
        has_deep == NameHas(w, "Deep") \/ NameHas(w, "Bottom")
    IN IF n_layers = 0 THEN [type |-> "unclassified"]
       ELSE [type |-> IF has_surface /\ has_intermediate /\ has_deep THEN "complete_stratification"
                      ELSE IF has_surface /\ has_intermediate THEN "upper_ocean_stratification"
                      ELSE IF has_surface /\ has_deep THEN "two_layer_system"
                      ELSE IF n_layers >= 4 THEN "multi_layered"
                      ELSE "simple_structure",
             n_layers |-> n_layers,
             complexity |-> IF n_layers >= 4 THEN "high"
                            ELSE IF n_layers >= 2 THEN "moderate" ELSE "low"]

\* density of line 162 times 1000, less the constant 1000 kg/m3
DensityOf(r) == IF r.salinity = NaN \/ r.temperature = NaN THEN NaN
                ELSE 7 * r.salinity - 20 * r.temperature

\* _calculate_stratification (lines 155-189); a mean is a <<sum, count>> pair
_calculate_stratification(s) ==
    LET pmax == PressureMax(s)
        dens(R) == LET used == {i \in R : DensityOf(s[i]) # NaN}
                   IN <<SumOver([i \in used |-> DensityOf(s[i])], used), Cardinality(used)>>
        surface == dens({i \in 1..Len(s) : s[i].pressure # NaN /\ s[i].pressure <= 10})
        deep == dens({i \in 1..Len(s) : s[i].pressure # NaN /\ 10 * s[i].pressure >= 8 * pmax})
        defined == surface[2] > 0 /\ deep[2] > 0
        depth_diff == pmax - 10
        \* density_diff * 1000 * surface[2] * deep[2]
        diff == deep[1] * surface[2] - surface[1] * deep[2]
        scale == 1000 * surface[2] * deep[2] * depth_diff
        \* stratification_index > num / 100
        above(num) == defined /\ depth_diff > 0 /\ 100 * diff > num * scale
    IN IF Len(s) < 5 THEN [status |-> "insufficient_data"]
       ELSE [classification |-> IF above(10) THEN "highly_stratified"
                                ELSE IF above(5) THEN "moderately_stratified"
                                ELSE IF above(1) THEN "weakly_stratified"
                                ELSE "well_mixed",
             index_defined |-> defined \/ depth_diff <= 0,
             surface_density |-> surface,
             deep_density |-> deep]

\* the body from line 36 on, for the sorted frame s
WaterMassesOf(s) ==
    LET water_masses == DetectFrom(s, 1)
    IN [success |-> TRUE,
        water_masses_detected |-> Len(water_masses),
        water_masses |-> water_masses,
        stratification |-> _calculate_stratification(s),
        mixing_zones |-> _identify_mixing_zones(s, water_masses),
        profile_classification |-> _classify_water_column(water_masses),
        total_measurements |-> Len(s),
        depth_coverage_m |-> PressureMax(s)]

\* every outcome of identify_water_masses_advanced for the frame (c, d)
identify_water_masses_advanced(c, d) ==
    IF Len(d) = 0 \/ "temperature" \notin c \/ "salinity" \notin c
    THEN {Failure("Temperature and salinity data required")}
    ELSE IF "pressure" \notin c THEN {Raised("KeyError")}
    ELSE {WaterMassesOf(s) : s \in sort_values(d)}

----------------------------------------------------------------------------
(* Profiles for the water masses: one row, or none, at each pressure of a  *)
(* small grid                                                              *)

WmPressures == <<0, 90, 120, 150, 300>>

\* temperature / salinity pairs: surface water, surface water that is also
\* Bay of Bengal water, Bay of Bengal water alone, central water, water of
\* no envelope, and a level whose temperature is missing
WmWaters ==
    {<<270, 3500>>, <<270, 3400>>, <<270, 3200>>, <<150, 3500>>, <<220, 3500>>, <<NaN, 3500>>}

RECURSIVE WmProfilesFrom(_)
WmProfilesFrom(k) ==
    IF k > Len(WmPressures) THEN {<<>>}
    ELSE LET rest == WmProfilesFrom(k + 1) IN
         rest \cup {<<[pressure |-> WmPressures[k], temperature |-> w[1], salinity |-> w[2]]>> \o r :
                        w \in WmWaters, r \in rest}

InitWM ==
    /\ cols = WmCols
    /\ df \in WmProfilesFrom(1)
    /\ norm = None
    /\ renorm = None
    /\ result = None
    /\ mld = None
    /\ wm = None
    /\ table = None /\ archive = None /\ decoded = None /\ ds = None
    /\ arg = None /\ ret = None
    /\ tool_handlers = None /\ response = None
    /\ csv = None /\ db = None /\ session = None /\ load_result = None

IdentifyWaterMasses ==
    /\ wm = None
    /\ wm' \in identify_water_masses_advanced(cols, df)
    /\ UNCHANGED <<cols, df, norm, renorm, result, mld, codecVars, callVars, mcpVars, loaderVars>>

NextWM == IdentifyWaterMasses

SpecWM == InitWM /\ [][NextWM]_vars

----------------------------------------------------------------------------
(* NetCDFExporter.export_to_netcdf (netcdf_exporter.py 28-341)             *)
(*                                                                         *)
(* A timestamp is an integer number of milliseconds since 1950-01-01.      *)
(* PRES, TEMP and PSAL are carried at the resolution 0.001 that the file   *)
(* declares for them; the float32 rounding of a cell is below it.          *)

FloatFill == 99999         \* fill_value=99999.0 of the float variables
JuldFill == 999999         \* fill_value=999999.0 of JULD
QcFill == 9                \* fill_value=9 of TEMP_QC and PSAL_QC

CodecCols == {"float_id", "cycle_number", "latitude", "longitude", "timestamp",
              "pressure", "temperature", "salinity", "temp_qc", "sal_qc"}

Grouped(c) == "float_id" \in c /\ "cycle_number" \in c

KeyOf(r) == <<r.float_id, r.cycle_number>>
KeyLess(a, b) == a[1] < b[1] \/ (a[1] = b[1] /\ a[2] < b[2])

\* df.groupby(['float_id', 'cycle_number']): the groups in ascending key
\* order, each with its rows in frame order
Groups(rows) ==
    LET keys == {KeyOf(rows[i]) : i \in 1..Len(rows)}
        nth(k) == CHOOSE key \in keys : Cardinality({o \in keys : KeyLess(o, key)}) = k - 1
        SameKey(key) == LET Test(r) == KeyOf(r) = key IN SelectSeq(rows, Test)
    IN [k \in 1..Cardinality(keys) |-> SameKey(nth(k))]

\* the profiles that _write_data iterates over (lines 277-280)
ProfilesOf(c, rows) == IF Grouped(c) THEN Groups(rows) ELSE <<rows>>

\* Series.count(): the values that are not missing
CountPressure(g) == Cardinality({i \in 1..Len(g) : g[i].pressure # NaN})

\* days since 1950-01-01 as float64 (line 295), read back by the decoder:
\* the two roundings move the instant by less than a millisecond
FloatError == {-1, 0, 1}

\* an empty file: what exists when export_to_netcdf fails early
EmptyFile == [returned |-> FALSE, has_dims |-> FALSE, has_vars |-> FALSE]

\* _create_dimensions followed by _create_variables (lines 116-271): every
\* cell starts as its fill value.  createDimension with size 0 creates an
\* unlimited dimension, which grows with what is written along it
CreatedFile(c, rows) ==
    LET n_prof == IF Grouped(c) THEN Len(Groups(rows)) ELSE 1
        n_levels == IF "pressure" \in c
                    THEN SetMax({CountPressure(Groups(rows)[k]) : k \in 1..Len(Groups(rows))})
                    ELSE Len(rows)
        floats == [k \in 1..n_prof |-> [l \in 1..n_levels |-> FloatFill]]
        flags == [k \in 1..n_prof |-> [l \in 1..n_levels |-> QcFill]]
    IN [returned |-> FALSE, has_dims |-> TRUE, has_vars |-> TRUE,
        N_PROF |-> n_prof, N_LEVELS |-> n_levels, unlimited |-> (n_levels = 0),
        LATITUDE |-> [k \in 1..n_prof |-> FloatFill],
        LONGITUDE |-> [k \in 1..n_prof |-> FloatFill],
        JULD |-> [k \in 1..n_prof |-> JuldFill],
        PRES |-> floats, TEMP |-> floats, PSAL |-> floats,
        TEMP_QC |-> flags, PSAL_QC |-> flags,
        PLATFORM_NUMBER |-> [k \in 1..n_prof |-> NaN],
        CYCLE_NUMBER |-> [k \in 1..n_prof |-> FloatFill]]

\* var[prof_idx, :n] = values
PutRow(var, k, g, col) ==
    [var EXCEPT ![k] = [l \in DOMAIN var[k] |-> IF l <= Len(g) THEN g[l][col] ELSE var[k][l]]]

\* an unlimited N_LEVELS grown to n levels, the new cells holding the fill
\* value of their variable
Grown(f, n) ==
    LET wider(var, fill) ==
            [p \in DOMAIN var |-> [l \in 1..n |-> IF l <= Len(var[p]) THEN var[p][l] ELSE fill]]
    IN IF ~f.unlimited \/ n <= f.N_LEVELS THEN f
       ELSE [f EXCEPT !.N_LEVELS = n,
                      !.PRES = wider(@, FloatFill), !.TEMP = wider(@, FloatFill),
                      !.PSAL = wider(@, FloatFill),
                      !.TEMP_QC = wider(@, QcFill), !.PSAL_QC = wider(@, QcFill)]

\* one pass of the loop of lines 282-339 for the sorted profile g; the
\* slice [:n_levels] must fit a fixed N_LEVELS dimension, else the write
\* raises after position and time were stored
WriteProfile(f, c, k, g, err) ==
    LET head == [Grown(f, Len(g)) EXCEPT
                    !.LATITUDE[k] = g[1].latitude,
                    !.LONGITUDE[k] = g[1].longitude,
                    !.JULD[k] = IF "timestamp" \in c THEN g[1].timestamp + err ELSE @]
        put(file, var, col) ==
            IF col \in c THEN [file EXCEPT ![var] = PutRow(file[var], k, g, col)] ELSE file
        body == put(put(put(put(put(head, "PRES", "pressure"), "TEMP", "temperature"),
                            "PSAL", "salinity"), "TEMP_QC", "temp_qc"), "PSAL_QC", "sal_qc")
    IN IF Len(g) > f.N_LEVELS /\ ~f.unlimited THEN [head EXCEPT !.returned = FALSE]
       ELSE IF Grouped(c) /\ g[1].float_id # 0
            THEN [body EXCEPT !.PLATFORM_NUMBER[k] = g[1].float_id,
                              !.CYCLE_NUMBER[k] = g[1].cycle_number,
                              !.returned = TRUE]
            ELSE [body EXCEPT !.returned = TRUE]

\* _write_data: the profiles in order, each sorted by pressure; the loop
\* stops at the first write that raises
RECURSIVE WriteFrom(_, _, _, _)
WriteFrom(f, c, profiles, k) ==
    IF k > Len(profiles) THEN {f}
    ELSE UNION {LET w == WriteProfile(f, c, k, g, err)
                IN IF w.returned THEN WriteFrom(w, c, profiles, k + 1) ELSE {w} :
                    g \in sort_values(profiles[k]), err \in FloatError}

\* every file export_to_netcdf can leave behind for the frame (c, rows);
\* `returned` is its return value
export_to_netcdf(c, rows) ==
    IF "latitude" \notin c \/ "longitude" \notin c THEN {EmptyFile}
    ELSE IF "pressure" \in c /\ ~Grouped(c) THEN {EmptyFile}
    ELSE IF "pressure" \notin c THEN {CreatedFile(c, rows)}
    ELSE WriteFrom(CreatedFile(c, rows), c, ProfilesOf(c, rows), 1)

----------------------------------------------------------------------------
(* NetCDFExtractor.extract_profiles (netcdf_extractor.py 25-105)           *)

\* xarray's open_dataset masks a cell that equals the variable's _FillValue
Masked(v, fill) == IF v = fill THEN NaN ELSE v

\* _julian_to_datetime: JULD arrives decoded as datetime64 and passes through
_julian_to_datetime(juld) == Masked(juld, JuldFill)

\* lines 63-79 for one cell: int() of a masked flag raises and the bare
\* except leaves the remaining flags out of the record
LevelRecord(f, k, l) ==
    LET tq == Masked(f.TEMP_QC[k][l], QcFill)
        sq == Masked(f.PSAL_QC[k][l], QcFill)
        cyc == Masked(f.CYCLE_NUMBER[k], FloatFill)
    IN [float_id |-> IF cyc = NaN THEN NaN ELSE f.PLATFORM_NUMBER[k],
        float_id_is_repr |-> cyc # NaN,       \* str() of the bytes value
        cycle_number |-> cyc,
        latitude |-> Masked(f.LATITUDE[k], FloatFill),
        longitude |-> Masked(f.LONGITUDE[k], FloatFill),
        timestamp |-> _julian_to_datetime(f.JULD[k]),
        pressure |-> f.PRES[k][l],
        temperature |-> f.TEMP[k][l],
        salinity |-> f.PSAL[k][l],
        temp_qc |-> tq,
        sal_qc |-> IF tq = NaN THEN NaN ELSE sq]

\* a skip that looks at the pressure only
IsNumberCell_pressure_only(f, k, l) == Masked(f.PRES[k][l], FloatFill) # NaN

\* the level is skipped when pressure, temperature or salinity is NaN
IsNumberCell(f, k, l) ==
    /\ Masked(f.PRES[k][l], FloatFill) # NaN
    /\ Masked(f.TEMP[k][l], FloatFill) # NaN
    /\ Masked(f.PSAL[k][l], FloatFill) # NaN

RECURSIVE ExtractFrom(_, _, _)
ExtractFrom(f, k, l) ==
    IF k > f.N_PROF THEN <<>>
    ELSE IF l > f.N_LEVELS THEN ExtractFrom(f, k + 1, 1)
    ELSE (IF IsNumberCell(f, k, l) THEN <<LevelRecord(f, k, l)>> ELSE <<>>)
         \o ExtractFrom(f, k, l + 1)

\* without dimensions N_PROF defaults to 1 and the first read of LATITUDE
\* raises KeyError
extract_profiles(f) ==
    IF ~f.has_dims \/ ~f.has_vars THEN Raised("KeyError")
    ELSE [raised |-> FALSE, rows |-> ExtractFrom(f, 1, 1)]

----------------------------------------------------------------------------
(* Tables for the codec: the first profile is free, the others are plain   *)

MaxProfiles == 2
MaxCodecLevels == 2

\* salinity, temp_qc, sal_qc and whether the pressure is present
LevelKinds == {<<3500, 1, 1, TRUE>>, <<3500, 9, 1, TRUE>>, <<3500, 2, 9, TRUE>>,
               <<NaN, 1, 1, TRUE>>, <<3500, 1, 1, FALSE>>}
PlainKind == <<3500, 1, 1, TRUE>>

CodecRow(cycle, l, kind) ==
    [float_id |-> 7, cycle_number |-> cycle, latitude |-> 155, longitude |-> 703,
     timestamp |-> 86400000 * cycle + 1000 * cycle,
     pressure |-> IF kind[4] THEN 10 * l ELSE NaN, temperature |-> 200 - l,
     salinity |-> kind[1], temp_qc |-> kind[2], sal_qc |-> kind[3]]

FreeProfiles ==
    UNION {{[l \in 1..n |-> CodecRow(1, l, kinds[l])] : kinds \in [1..n -> LevelKinds]} :
              n \in 1..MaxCodecLevels}

PlainProfile(cycle, n) == [l \in 1..n |-> CodecRow(cycle, l, PlainKind)]

RECURSIVE PlainTail(_)
PlainTail(cycle) ==
    IF cycle > MaxProfiles THEN {<<>>}
    ELSE {<<>>} \cup {PlainProfile(cycle, n) \o rest :
                          n \in 1..MaxCodecLevels, rest \in PlainTail(cycle + 1)}

CodecColumnSets == {CodecCols, CodecCols \ {"temp_qc", "sal_qc"}, CodecCols \ {"float_id"}}

InitCodec ==
    /\ cols = {} /\ df = <<>>
    /\ norm = None /\ renorm = None /\ result = None /\ mld = None /\ wm = None
    /\ \E first \in FreeProfiles, rest \in PlainTail(2), c \in CodecColumnSets :
          table = [columns |-> c, rows |-> first \o rest]
    /\ archive = None
    /\ decoded = None
    /\ ds = None
    /\ arg = None /\ ret = None
    /\ tool_handlers = None /\ response = None
    /\ csv = None /\ db = None /\ session = None /\ load_result = None

\* the file is written before anything tries to read it, or never
Export ==
    /\ archive = None
    /\ decoded = None
    /\ archive' \in export_to_netcdf(table.columns, table.rows)
    /\ UNCHANGED <<analyticsVars, table, decoded, ds, callVars, mcpVars, loaderVars>>

\* self.ds once a dataset was opened: "open", "closed", or "leaked" when it
\* is open and the extractor that held it is gone
Handle(state) == [state |-> state]

\* load_netcdf (lines 15-23): xr.open_dataset fails when there is no file
\* at the path; the exception is caught and False is returned
load_netcdf(f) == f # None

\* extract_profiles called on a fresh extractor: a failed load leaves
\* self.ds = None, and self.ds.dims raises AttributeError
ExtractOutcome(f) ==
    IF load_netcdf(f) THEN extract_profiles(f) ELSE Raised("AttributeError")

\* NetCDFExtractor(path).extract_profiles(), the caller keeping the
\* extractor: the dataset stays open until close() is called
Extract ==
    /\ decoded = None
    /\ decoded' = ExtractOutcome(archive)
    /\ ds' = IF load_netcdf(archive) THEN Handle("open") ELSE None
    /\ UNCHANGED <<analyticsVars, table, archive, callVars, mcpVars, loaderVars>>

\* NetCDFExtractor.close (lines 127-130)
Close ==
    /\ decoded # None
    /\ ds = Handle("open")
    /\ ds' = Handle("closed")
    /\ UNCHANGED <<analyticsVars, table, archive, decoded, callVars, mcpVars, loaderVars>>

\* what becomes of the dataset of an extractor that was local to the decode
\* path: nothing closes it, and whether a finalizer has run by the time the
\* caller resumes is not determined by the code
Abandoned(f) == IF load_netcdf(f) THEN {Handle("leaked"), Handle("closed")} ELSE {None}

\* ARGOFloatDataSource.extract_data (data_source_manager.py 93-97)
ExtractData ==
    /\ decoded = None
    /\ decoded' = ExtractOutcome(archive)
    /\ ds' \in Abandoned(archive)
    /\ UNCHANGED <<analyticsVars, table, archive, callVars, mcpVars, loaderVars>>

\* process_single_netcdf (process_netcdf_files.py 22-57): False when the
\* load fails or nothing was extracted, else the rows written as CSV
process_single_netcdf(f) ==
    IF ~load_netcdf(f) THEN [raised |-> FALSE, rows |-> <<>>, returned |-> FALSE, unreadable |-> TRUE]
    ELSE LET out == extract_profiles(f)
         IN IF out.raised THEN out
            ELSE [raised |-> FALSE, rows |-> out.rows, returned |-> out.rows # <<>>,
                  unreadable |-> FALSE]

ProcessSingleNetcdf ==
    /\ decoded = None
    /\ decoded' = process_single_netcdf(archive)
    /\ ds' \in Abandoned(archive)
    /\ UNCHANGED <<analyticsVars, table, archive, callVars, mcpVars, loaderVars>>

NextCodec == Export \/ Extract \/ Close \/ ExtractData \/ ProcessSingleNetcdf

SpecCodec == InitCodec /\ [][NextCodec]_vars

----------------------------------------------------------------------------
(* The helpers of the analytics, each called on its own arguments          *)

MaxGapRows == 3

\* level counts on both sides of 10, 20 and 50
ConfidenceLevels == {2, 10, 11, 20, 21, 50, 51}
\* mean pressure spacings on both sides of 5 and 10 dbar
ConfidenceSpacings == {4, 5, 9, 10}
\* strengths in thousandths of a degC per dbar, on both sides of 0.04, 0.08
\* and 0.15
ConfidenceStrengths == {0, 40, 41, 80, 81, 150, 151, 300}

ConfidenceArgs ==
    {[fn |-> "_calculate_thermocline_confidence",
      df |-> [i \in 1..n |-> [pressure |-> (i - 1) * d, temperature |-> 200]],
      strength |-> <<x, 100>>] :
        n \in ConfidenceLevels, d \in ConfidenceSpacings, x \in ConfidenceStrengths}

\* changes of temperature (tenths of a degC) and of salinity (hundredths of
\* a PSU) across a step of 10 dbar, on both sides of the thresholds
GapTempSteps == {0, 5, 6, 10, 11}
GapSalSteps == {0, 20, 21, 50, 51}

RECURSIVE GapFrames(_)
GapFrames(n) ==
    IF n = 1 THEN {<<[pressure |-> 100, temperature |-> 200, salinity |-> 3500]>>}
    ELSE {Append(g, [pressure |-> g[n - 1].pressure + 10,
                     temperature |-> g[n - 1].temperature - dt,
                     salinity |-> g[n - 1].salinity + dsal]) :
              g \in GapFrames(n - 1), dt \in GapTempSteps, dsal \in GapSalSteps}

MixingArgs ==
    {[fn |-> "_calculate_mixing_strength", gap_data |-> g] :
        g \in UNION {GapFrames(n) : n \in 1..MaxGapRows}}

\* every list of detected water masses, in the order of the criteria table
RECURSIVE MassLists(_)
MassLists(k) ==
    IF k > Len(water_mass_criteria) THEN {<<>>}
    ELSE LET rest == MassLists(k + 1)
         IN rest \cup {<<[name |-> water_mass_criteria[k].name, detected |-> TRUE]>> \o r : r \in rest}

ColumnArgs ==
    {[fn |-> "_classify_water_column", water_masses |-> w] : w \in MassLists(1)}

InitHelpers ==
    /\ cols = {} /\ df = <<>>
    /\ norm = None /\ renorm = None /\ result = None /\ mld = None /\ wm = None
    /\ table = None /\ archive = None /\ decoded = None /\ ds = None
    /\ arg \in ConfidenceArgs \cup MixingArgs \cup ColumnArgs
    /\ ret = None
    /\ tool_handlers = None /\ response = None
    /\ csv = None /\ db = None /\ session = None /\ load_result = None

CallConfidence ==
    /\ ret = None
    /\ arg.fn = "_calculate_thermocline_confidence"
    /\ ret' = Some(_calculate_thermocline_confidence(arg.df, arg.strength[1], arg.strength[2]))
    /\ UNCHANGED <<analyticsVars, codecVars, arg, mcpVars, loaderVars>>

CallMixingStrength ==
    /\ ret = None
    /\ arg.fn = "_calculate_mixing_strength"
    /\ ret' = Some(_calculate_mixing_strength(arg.gap_data, 1..Len(arg.gap_data)))
    /\ UNCHANGED <<analyticsVars, codecVars, arg, mcpVars, loaderVars>>

CallClassifyWaterColumn ==
    /\ ret = None
    /\ arg.fn = "_classify_water_column"
    /\ ret' = Some(_classify_water_column(arg.water_masses))
    /\ UNCHANGED <<analyticsVars, codecVars, arg, mcpVars, loaderVars>>

NextHelpers == CallConfidence \/ CallMixingStrength \/ CallClassifyWaterColumn

SpecHelpers == InitHelpers /\ [][NextHelpers]_vars

----------------------------------------------------------------------------
(* MCPProtocol (mcp_server/mcp_protocol.py 47-122), driven as              *)
(* ArgoMCPServer.call_tool drives it (argo_mcp_server.py 605-609).  A       *)
(* handler is known by what a call of it does.                              *)

ToolNames == {"query_argo_data", "get_database_schema"}

\* a handler returns a plain dict, a string, or a dict holding a pandas
\* Timestamp (the records of a query with a timestamp column), or it raises
HandlerKinds ==
    {"returns_dict", "returns_str", "returns_dict_with_timestamp",
     "raises_Exception", "raises_SystemExit"}

Unregistered == "unregistered"

\* the dataclass: content, then isError
MCPToolResult(content, isError) == <<content, isError>>

\* isError: bool = False
MCPToolResult_default(content) == MCPToolResult(content, FALSE)

\* to_dict: asdict(self)
to_dict(r) == [content |-> r[1], isError |-> r[2]]

\* handler(**tool_call.arguments)
handler_call(kind) ==
    CASE kind = "returns_dict" -> Returned([type |-> "dict", serializable |-> TRUE])
      [] kind = "returns_dict_with_timestamp" -> Returned([type |-> "dict", serializable |-> FALSE])
      [] kind = "returns_str" -> Returned([type |-> "str", serializable |-> TRUE])
      [] kind = "raises_Exception" -> Raised("Exception")
      [] kind = "raises_SystemExit" -> Raised("SystemExit")

\* json.dumps(result, indent=2) if isinstance(result, dict) else str(result)
result_text(v) ==
    IF v.type = "dict"
    THEN IF v.serializable THEN Returned("json") ELSE Raised("TypeError")
    ELSE Returned("str")

\* call_tool (lines 90-122): except Exception lets SystemExit through
call_tool(handlers, name) ==
    IF handlers[name] = Unregistered
    THEN Returned(MCPToolResult(<<"Tool not found", name>>, TRUE))
    ELSE LET out == handler_call(handlers[name])
         IN IF out.raised
            THEN IF out.error = "SystemExit" THEN Raised("SystemExit")
                 ELSE Returned(MCPToolResult(<<"Tool execution error", out.error>>, TRUE))
            ELSE LET text == result_text(out.value)
                 IN IF text.raised
                    THEN Returned(MCPToolResult(<<"Tool execution error", text.error>>, TRUE))
                    ELSE Returned(MCPToolResult(<<text.value, name>>, FALSE))

InitMCP ==
    /\ cols = {} /\ df = <<>>
    /\ norm = None /\ renorm = None /\ result = None /\ mld = None /\ wm = None
    /\ table = None /\ archive = None /\ decoded = None /\ ds = None
    /\ arg = None /\ ret = None
    /\ tool_handlers = [n \in ToolNames |-> Unregistered]
    /\ response = None
    /\ csv = None /\ db = None /\ session = None /\ load_result = None

\* register_tool: a later registration of a name replaces the earlier one
RegisterTool ==
    /\ \E n \in ToolNames, h \in HandlerKinds :
          tool_handlers' = [tool_handlers EXCEPT ![n] = h]
    /\ UNCHANGED <<analyticsVars, codecVars, callVars, response, loaderVars>>

\* ArgoMCPServer.call_tool: protocol.call_tool(tool_call), then to_dict()
CallTool ==
    /\ \E n \in ToolNames :
          LET out == call_tool(tool_handlers, n)
          IN response' =
                IF out.raised
                THEN [op |-> "call_tool", name |-> n, raised |-> TRUE, error |-> out.error]
                ELSE [op |-> "call_tool", name |-> n, raised |-> FALSE,
                      result |-> out.value, dict |-> to_dict(out.value)]
    /\ UNCHANGED <<analyticsVars, codecVars, callVars, tool_handlers, loaderVars>>

\* an MCPToolResult built directly, with or without isError
BuildResult ==
    /\ \E given \in {None, Some(TRUE), Some(FALSE)} :
          LET r == IF given = None THEN MCPToolResult_default(<<"text">>)
                   ELSE MCPToolResult(<<"text">>, given.val)
          IN response' = [op |-> "MCPToolResult", given |-> given, raised |-> FALSE,
                          result |-> r, dict |-> to_dict(r)]
    /\ UNCHANGED <<analyticsVars, codecVars, callVars, tool_handlers, loaderVars>>

NextMCP == RegisterTool \/ CallTool \/ BuildResult

SpecMCP == InitMCP /\ [][NextMCP]_vars

----------------------------------------------------------------------------
(* DataLoader.load_csv_to_db (data_processing/data_loader.py 13-50) and    *)
(* its caller load_csv_to_database (scripts/process_netcdf_files.py        *)
(* 91-103).  A row is known by its position in the file.                   *)

MaxCsvRows == 5
MaxBatchSize == 3          \* batch_size; the default is 1000

\* where saving a batch can fail
SaveSteps == {"ArgoProfile", "bulk_save_objects", "commit"}

Faults(n, b) ==
    {None} \cup {[batch |-> k, at |-> st] : k \in 1..((n + b - 1) \div b), st \in SaveSteps}

CsvFiles ==
    {[readable |-> FALSE]} \cup
    UNION {{[readable |-> TRUE, rows |-> [i \in 1..n |-> i], batch_size |-> b, fault |-> f] :
               f \in Faults(n, b)} : n \in 0..MaxCsvRows, b \in 1..MaxBatchSize}

\* df.iloc[i:j]
iloc(rows, i, j) == SubSeq(rows, i + 1, IF j < Len(rows) THEN j ELSE Len(rows))

\* self.db_setup.get_session()
get_session == [state |-> "open", pending |-> <<>>, rolled_back |-> FALSE]

\* session.bulk_save_objects(profiles): written inside the open transaction
bulk_save_objects(st, profiles) == [st EXCEPT !.session.pending = @ \o profiles]

\* a commit that leaves the transaction open
commit_deferred(st) == st

\* session.commit()
commit(st) == [st EXCEPT !.db = @ \o st.session.pending, !.session.pending = <<>>]

\* session.rollback()
rollback(st) == [st EXCEPT !.session.pending = <<>>, !.session.rolled_back = TRUE]

\* the loop of lines 30-40 from offset i on, and the except clause of
\* lines 44-48 when batch fault.batch fails
RECURSIVE LoadBatches(_, _, _, _, _)
LoadBatches(st, rows, batch_size, i, fault) ==
    IF i >= Len(rows) THEN st
    ELSE LET batch == iloc(rows, i, i + batch_size)
             saved == bulk_save_objects(st, batch)
         IN IF fault # None /\ fault.batch = i \div batch_size + 1
            THEN IF fault.at = "ArgoProfile" THEN rollback(st) ELSE rollback(saved)
            ELSE LoadBatches(commit(saved), rows, batch_size, i + batch_size, fault)

\* load_csv_to_db: read_csv and get_session stand before the try; the
\* finally clause closes the session; there is no return statement
load_csv_to_db(file, database) ==
    IF ~file.readable
    THEN [db |-> database, session |-> None, outcome |-> Raised("FileNotFoundError")]
    ELSE LET st == LoadBatches([db |-> database, session |-> get_session],
                               file.rows, file.batch_size, 0, file.fault)
         IN [db |-> st.db,
             session |-> [st.session EXCEPT !.state = "closed"],
             outcome |-> Returned(None)]

InitLoader ==
    /\ cols = {} /\ df = <<>>
    /\ norm = None /\ renorm = None /\ result = None /\ mld = None /\ wm = None
    /\ table = None /\ archive = None /\ decoded = None /\ ds = None
    /\ arg = None /\ ret = None
    /\ tool_handlers = None /\ response = None
    /\ csv \in CsvFiles
    /\ db = <<>>
    /\ session = None
    /\ load_result = None

\* DataLoader().load_csv_to_db(csv_path)
LoadCsvToDb ==
    /\ load_result = None
    /\ LET r == load_csv_to_db(csv, db)
       IN /\ db' = r.db
          /\ session' = r.session
          /\ load_result' = [fn |-> "load_csv_to_db", outcome |-> r.outcome]
    /\ UNCHANGED <<analyticsVars, codecVars, callVars, mcpVars, csv>>

\* load_csv_to_database: reports by the truth value of what the loader returned
LoadCsvToDatabase ==
    /\ load_result = None
    /\ LET r == load_csv_to_db(csv, db)
       IN /\ db' = r.db
          /\ session' = r.session
          /\ load_result' =
                IF r.outcome.raised THEN [fn |-> "load_csv_to_database", outcome |-> r.outcome]
                ELSE [fn |-> "load_csv_to_database", outcome |-> r.outcome,
                      printed |-> IF r.outcome.value \notin {None, Some(FALSE)}
                                  THEN "Data loaded to database successfully"
                                  ELSE "Failed to load data to database"]
    /\ UNCHANGED <<analyticsVars, codecVars, callVars, mcpVars, csv>>

NextLoader == LoadCsvToDb \/ LoadCsvToDatabase

SpecLoader == InitLoader /\ [][NextLoader]_vars

----------------------------------------------------------------------------
(* Claims about the normalisation *)

\* C3: after normalisation the pressures are strictly increasing, with no
\* repeated and no missing pressure
C3_StrictlyIncreasing ==
    norm # None =>
        /\ \A i \in 1..Len(norm.val) : norm.val[i].pressure # NaN
        /\ \A i \in 1..(Len(norm.val) - 1) :
               norm.val[i].pressure < norm.val[i + 1].pressure

\* an unsorted input holding a duplicate pressure and a missing pressure was
\* normalised to two levels
C3_Witness ==
    /\ norm # None
    /\ Len(df) = MaxRows
    /\ Len(norm.val) = 2
    /\ df[1].pressure # NaN /\ df[2].pressure # NaN
    /\ df[1].pressure > df[2].pressure
    /\ \E i \in 1..Len(df) : df[i].pressure = NaN \/ df[i].temperature = NaN

\* C4: normalising an already normalised profile returns the same sequence
\* of measurements
C4_Idempotent ==
    renorm # None => renorm.val = norm.val

\* a three-row input with repeated pressures was normalised twice
C4_Witness ==
    /\ renorm # None
    /\ Len(df) = MaxRows
    /\ Len(norm.val) >= 1
    /\ Len(norm.val) < Len(dropna(df))

----------------------------------------------------------------------------
(* Claims about the thermocline and the mixed layer depth *)

\* pressures of the rows that survive the normalisation of d
NormPressures(d) == {d[i].pressure : i \in {j \in 1..Len(d) : HasPT(d[j])}}

\* d is a normalised profile: no missing value, strictly increasing pressure
IsNormalized(d) ==
    /\ \A i \in 1..Len(d) : HasPT(d[i])
    /\ \A i \in 1..(Len(d) - 1) : d[i].pressure < d[i + 1].pressure

IsUniform(d) == \A i \in 1..Len(d) : d[i].temperature = d[1].temperature

InRange(x, d) == SetMin(NormPressures(d)) <= x /\ x <= SetMax(NormPressures(d))

\* C1: a profile with at least 10 normalised levels gets a successful result
\* whose thermocline depth lies strictly between the smallest and the largest
\* normalised pressure
C1_ThermoclineStrictlyInside ==
    (result # None /\ cols = AllCols /\ Cardinality(NormPressures(df)) >= 10) =>
        /\ result.success
        /\ SetMin(NormPressures(df)) < result.thermocline_depth_dbar
        /\ result.thermocline_depth_dbar < SetMax(NormPressures(df))

\* a thermocline of non-zero strength was found in a frame that needed
\* sorting and de-duplication
C1_Witness ==
    /\ result # None
    /\ result.success
    /\ result.strength_num > 0
    /\ Len(df) > Cardinality(NormPressures(df))

\* C2: every mixed layer depth that is returned lies within the pressure
\* range of its (normalised) profile, for calculate_thermocline_advanced and
\* for calculate_mixed_layer_depth
C2_MldWithinRange ==
    IsNormalized(df) =>
        /\ (result # None /\ result.success) => InRange(result.mixed_layer_depth_dbar, df)
        /\ (mld # None /\ ~mld.raised) => InRange(mld.value, df)

\* C6: with fewer than 10 normalised levels (empty frame and missing column
\* included) the result is a tagged failure without depth or strength
C6_InsufficientData ==
    (result # None /\ (cols # AllCols \/ Cardinality(NormPressures(df)) < 10)) =>
        /\ ~result.success
        /\ DOMAIN result = {"success", "error"}

\* a frame of at least 10 rows that normalises to fewer than 10 levels failed
C6_Witness ==
    /\ result # None
    /\ cols = AllCols
    /\ Len(df) >= 10
    /\ Cardinality(NormPressures(df)) < 10
    /\ ~result.success

\* C7: for a 5-level profile the thermocline reports insufficient data while
\* calculate_mixed_layer_depth still returns a pressure within the profile
C7_FiveLevels ==
    (IsNormalized(df) /\ Len(df) = 5 /\ cols = AllCols) =>
        /\ result # None => ~result.success
        /\ mld # None => (~mld.raised /\ InRange(mld.value, df))

\* both functions ran on a 5-level profile whose mixed layer ends above the
\* deepest level
C7_Witness ==
    /\ IsNormalized(df) /\ Len(df) = 5 /\ cols = AllCols
    /\ result # None /\ ~result.success
    /\ mld # None /\ ~mld.raised
    /\ mld.value < df[5].pressure

\* C8: for a uniform-temperature profile the reported mixed layer depth is
\* the maximum pressure and the thermocline fails or has strength 0
C8_UniformProfile ==
    (IsNormalized(df) /\ Len(df) > 0 /\ IsUniform(df) /\ cols = AllCols) =>
        /\ mld # None => mld = Returned(df[Len(df)].pressure)
        /\ (result # None /\ result.success) =>
              /\ result.strength_num = 0
              /\ result.mixed_layer_depth_dbar = df[Len(df)].pressure

----------------------------------------------------------------------------
(* Claim about the synthetic 2 degC drop *)

InZone(x) == Zone.top <= x /\ x <= Zone.bottom

\* C9 as stated: every 12-level profile with a 2 degC drop between 50 and 80
\* dbar gets a thermocline depth in [50, 80] classified strong or very_strong
C9_DropScenario ==
    (result # None /\ IsDropScenario(df)) =>
        /\ result.success
        /\ InZone(result.thermocline_depth_dbar)
        /\ result.thermocline_strength_classification \in {"strong", "very_strong"}

\* the levels across which the temperature changes
DropRows(d) == {i \in 2..Len(d) : d[i].temperature # d[i - 1].temperature}

\* the whole drop happens between one pair of adjacent levels that are more
\* than 1 and at most 4 dbar apart, the deeper of which is neither one of the
\* first two levels nor the last one
IsSharpDrop(d) ==
    /\ Cardinality(DropRows(d)) = 1
    /\ \A i \in DropRows(d) :
          /\ i >= 3 /\ i <= Len(d) - 1
          /\ pressure_diff(d, i) > 1
          /\ pressure_diff(d, i) <= 4

\* C9 amended: the statement holds when the drop is a sharp one
C9_SharpDropScenario ==
    (result # None /\ IsDropScenario(df) /\ IsSharpDrop(df)) =>
        /\ result.success
        /\ InZone(result.thermocline_depth_dbar)
        /\ result.thermocline_strength_classification \in {"strong", "very_strong"}

\* a sharp drop whose deeper level is the bottom of the zone was analysed
C9_Witness ==
    /\ result # None
    /\ IsDropScenario(df) /\ IsSharpDrop(df)
    /\ \E i \in DropRows(df) : df[i].pressure = Zone.bottom
    /\ result.success

----------------------------------------------------------------------------
(* Claim about the mixing zones *)

\* exactly two water masses were detected, spanning [0, 90] and [150, 300]
TwoMassesWithGap ==
    /\ wm # None
    /\ wm.success
    /\ Len(wm.water_masses) = 2
    /\ {wm.water_masses[k].depth_range_m : k \in 1..2} = {<<0, 90>>, <<150, 300>>}

\* C10: two water masses at [0, 90] and [150, 300] dbar give exactly one
\* mixing zone, spanning [90, 150], whatever lies between 90 and 150 dbar
C10_OneMixingZone ==
    TwoMassesWithGap =>
        /\ Len(wm.mixing_zones) = 1
        /\ wm.mixing_zones[1].depth_range_m = <<90, 150>>

\* the two masses were detected in a profile with no level strictly inside
\* the gap
C10_Witness ==
    /\ TwoMassesWithGap
    /\ \A i \in 1..Len(df) : ~(df[i].pressure > 90 /\ df[i].pressure < 150)
    /\ Len(wm.mixing_zones) = 1

----------------------------------------------------------------------------
(* Claims about the water masses and about the thermocline quantities *)

\* C11: every water mass of a successful result has a thickness of at least
\* 0 and covers between 0 and 100 percent of the rows of the profile
C11_ThicknessAndCoverage ==
    (wm # None /\ wm.success) =>
        \A k \in 1..Len(wm.water_masses) :
            LET m == wm.water_masses[k]
            IN /\ m.thickness_m >= 0
               /\ m.measurements * 100 >= 0
               /\ m.measurements * 100 <= 100 * m.profile_rows

\* a thick mass, and a mass of one level that covers part of the profile
C11_Witness ==
    /\ wm # None /\ wm.success
    /\ \E k \in 1..Len(wm.water_masses) : wm.water_masses[k].thickness_m > 0
    /\ \E k \in 1..Len(wm.water_masses) :
          /\ wm.water_masses[k].thickness_m = 0
          /\ wm.water_masses[k].measurements < wm.water_masses[k].profile_rows

\* the levels of N whose temperature is more than 0.2 degC away from that of
\* the first level
FarFromSurface(N) ==
    {i \in 1..Len(N) :
        \/ N[i].temperature - N[1].temperature > 2
        \/ N[1].temperature - N[i].temperature > 2}

PairGradient(N, scale, i) ==
    IF N[i].pressure - N[i - 1].pressure <= 1 THEN 0
    ELSE Abs(N[i].temperature - N[i - 1].temperature)
             * (scale \div (N[i].pressure - N[i - 1].pressure))

\* three times the centred 3-point average at level i
ThreePointSum(N, scale, i) ==
    PairGradient(N, scale, i - 1) + PairGradient(N, scale, i) + PairGradient(N, scale, i + 1)

\* C13: the thermocline depth is the pressure of a level, the first two and
\* the last two excluded, where the centred 3-point average of the pair
\* gradients is greatest, and the strength is that average
C13_MaximumGradient ==
    (result # None /\ result.success) =>
        \E N \in Normalize(df) :
            LET scale == result.strength_den \div 6
                inner == {i \in 1..Len(N) : i > 2 /\ i < Len(N) - 1}
            IN \E i \in inner :
                  /\ result.thermocline_depth_dbar = N[i].pressure
                  /\ \A j \in inner : ThreePointSum(N, scale, j) <= ThreePointSum(N, scale, i)
                  \* strength = sum / 3 / scale = strength_num / (6 * scale)
                  /\ result.strength_num = 2 * ThreePointSum(N, scale, i)

\* a positive strength in the interior although the temperature already
\* changes between the first two levels
C13_Witness ==
    /\ result # None /\ result.success
    /\ result.strength_num > 0
    /\ \E N \in Normalize(df) :
          /\ N[2].temperature # N[1].temperature
          /\ N[2].pressure - N[1].pressure > 1
          /\ result.thermocline_depth_dbar > N[3].pressure

\* the levels below 50 dbar that are warmer than the level just above
WarmerThanAbove(N) ==
    {i \in 2..Len(N) : N[i].pressure > 50 /\ N[i].temperature > N[i - 1].temperature}

\* C15: the inversion flag is set exactly when some level below 50 dbar is
\* warmer than the level just above it, the last level included, and the
\* inversion depth is the pressure of the shallowest such level
C15_InversionFlag ==
    (result # None /\ result.success) =>
        \E N \in Normalize(df) :
            /\ result.has_temperature_inversion = (WarmerThanAbove(N) # {})
            /\ WarmerThanAbove(N) # {} =>
                  result.inversion_depth_dbar = N[SetMin(WarmerThanAbove(N))].pressure

----------------------------------------------------------------------------
(* Claims about the stability and the cross-check depth *)

\* C21: the stability label is stable exactly when N-squared is above 0, and
\* N-squared is (g / rho_0) * alpha * dT_dz * 100 with g = 9.81, rho_0 =
\* 1025, alpha = 2e-4 and dT_dz the negated thermocline strength alone:
\* -(981 * 2 * strength_num) / (1025 * 100000 * strength_den)
C21_StabilityFromNSquared ==
    (result # None /\ result.success) =>
        /\ (result.stability = "stable") = (result.N_squared_num > 0)
        /\ result.stability \in {"stable", "unstable"}
        /\ result.N_squared_num = 0 - 981 * 2 * result.strength_num
        /\ result.N_squared_den = <<1025, 100000 * result.strength_den>>

\* a profile without any gradient: N-squared is 0 and the label is unstable
C21_Witness ==
    /\ result # None /\ result.success
    /\ result.N_squared_num = 0
    /\ result.stability = "unstable"

\* C27: the thermocline strength is at least 0, N-squared is at most 0, the
\* buoyancy frequency is 0 and the label is never stable
C27_NeverStable ==
    (result # None /\ result.success) =>
        /\ result.strength_num >= 0
        /\ result.strength_den > 0
        /\ result.N_squared_num <= 0
        /\ result.buoyancy_frequency_sq = 0
        /\ result.stability # "stable"

\* a thermocline with a gradient: N-squared is negative
C27_Witness ==
    /\ result # None /\ result.success
    /\ result.strength_num > 0
    /\ result.N_squared_num < 0
    /\ result.stability = "unstable"

\* the levels of N more than 0.5 degC away from the surface temperature
BeyondHalfDegree(N) ==
    {i \in 1..Len(N) :
        \/ N[i].temperature - N[1].temperature > 5
        \/ N[1].temperature - N[i].temperature > 5}

\* C28: when some level is more than 0.5 degC away from the surface, the
\* mixed layer depth is at most the depth of the temperature-difference
\* method; when none is, that depth equals the maximum-gradient depth
C28_MixedLayerAboveAlternate ==
    (result # None /\ result.success) =>
        \E N \in Normalize(df) :
            IF BeyondHalfDegree(N) # {}
            THEN /\ result.mixed_layer_depth_dbar <= result.thermocline_depth_temp_criterion_dbar
                 /\ result.thermocline_depth_temp_criterion_dbar
                        = N[SetMin(BeyondHalfDegree(N))].pressure
            ELSE result.thermocline_depth_temp_criterion_dbar = result.thermocline_depth_dbar

\* the mixed layer ends strictly above the level that passes 0.5 degC
C28_Witness ==
    /\ result # None /\ result.success
    /\ \E N \in Normalize(df) : BeyondHalfDegree(N) # {}
    /\ result.mixed_layer_depth_dbar < result.thermocline_depth_temp_criterion_dbar

\* C22: no derived-quantity function raises on an empty profile, a missing
\* column or too few levels; each returns a tagged failure
C22_NoExceptionOnBadInput ==
    /\ mld # None => ~mld.raised
    /\ (result # None /\ (df = <<>> \/ cols # AllCols)) => ~result.success

----------------------------------------------------------------------------
(* Claims about membership in a water mass and about the mixing zones *)

\* the levels of the profile inside the closed ranges of the envelope e
Members(e) ==
    {i \in 1..Len(df) :
        /\ df[i].temperature # NaN /\ df[i].salinity # NaN /\ df[i].pressure # NaN
        /\ e.temp_min <= df[i].temperature /\ df[i].temperature <= e.temp_max
        /\ e.sal_min <= df[i].salinity /\ df[i].salinity <= e.sal_max
        /\ e.depth_min <= df[i].pressure /\ df[i].pressure <= e.depth_max}

EnvelopeSet == {water_mass_criteria[k] : k \in 1..Len(water_mass_criteria)}

\* C23: a level belongs to a water mass exactly when its temperature, its
\* salinity and its pressure lie in the closed ranges of the mass; a mass is
\* reported exactly when a level belongs to it, with the number of its
\* levels, and a level may belong to several masses
C23_ClosedRangeMembership ==
    (wm # None /\ wm.success) =>
        /\ {wm.water_masses[k].name : k \in 1..Len(wm.water_masses)}
               = {e.name : e \in {x \in EnvelopeSet : Members(x) # {}}}
        /\ \A k \in 1..Len(wm.water_masses) :
              \E e \in EnvelopeSet :
                  /\ e.name = wm.water_masses[k].name
                  /\ wm.water_masses[k].measurements = Cardinality(Members(e))
        /\ \A j, k \in 1..Len(wm.water_masses) :
              j # k => wm.water_masses[j].name # wm.water_masses[k].name

\* a level on the bound of a depth range belongs to the mass, and the counts
\* of the masses add up to more than the number of levels
C23_Witness ==
    /\ wm # None /\ wm.success
    /\ \E e \in EnvelopeSet : \E i \in Members(e) : df[i].pressure = e.depth_min
    /\ SumOver([k \in 1..Len(wm.water_masses) |-> wm.water_masses[k].measurements],
               1..Len(wm.water_masses)) > Len(df)

\* the orderings of the reported masses by nondecreasing core depth
CoreOrderings ==
    {o \in Orderings(1..Len(wm.water_masses)) :
        \A i \in 1..(Len(wm.water_masses) - 1) :
            ~ShallowerCore(wm.water_masses[o[i + 1]], wm.water_masses[o[i]])}

\* the adjacent pairs of the ordering o whose depth ranges leave a gap
GapPairs(o) ==
    {i \in 1..(Len(wm.water_masses) - 1) :
        wm.water_masses[o[i + 1]].depth_range_m[1] > wm.water_masses[o[i]].depth_range_m[2]}

\* C26: the mixing zones are at most one fewer than the masses, come in
\* ascending depth, do not overlap pairwise, have a thickness above 0, and
\* there is one for every pair of masses adjacent in core depth whose depth
\* ranges leave a gap
C26_MixingZonesOrdered ==
    (wm # None /\ wm.success) =>
        LET z == wm.mixing_zones
            w == wm.water_masses
        IN /\ Len(w) = 0 => Len(z) = 0
           /\ Len(w) > 0 => Len(z) <= Len(w) - 1
           /\ \A i, j \in 1..Len(z) :
                 i < j => /\ z[i].depth_range_m[1] < z[j].depth_range_m[1]
                          /\ z[i].depth_range_m[2] <= z[j].depth_range_m[1]
           /\ \A i \in 1..Len(z) :
                 /\ z[i].thickness_m > 0
                 /\ z[i].thickness_m = z[i].depth_range_m[2] - z[i].depth_range_m[1]
           /\ \E o \in CoreOrderings :
                 /\ Cardinality(GapPairs(o)) = Len(z)
                 /\ \A i \in GapPairs(o) :
                       \E k \in 1..Len(z) :
                           /\ z[k].between = <<w[o[i]].name, w[o[i + 1]].name>>
                           /\ z[k].depth_range_m
                                  = <<w[o[i]].depth_range_m[2], w[o[i + 1]].depth_range_m[1]>>

\* three masses and two zones, the second starting where the first ends
C26_Witness ==
    /\ wm # None /\ wm.success
    /\ Len(wm.water_masses) = 3
    /\ Len(wm.mixing_zones) = 2
    /\ wm.mixing_zones[1].depth_range_m[2] = wm.mixing_zones[2].depth_range_m[1]

----------------------------------------------------------------------------
(* Claims about the helpers *)

Called(fn) == ret # None /\ arg.fn = fn

\* the three buckets of the score; the strength is strength[1] /
\* (10 * strength[2]) degC per dbar, the resolution is the mean of the
\* pressure steps
LevelsBucket(levels) ==
    IF levels > 50 THEN 3 ELSE IF levels > 20 THEN 2 ELSE IF levels > 10 THEN 1 ELSE 0

StrengthBucket(strength) ==
    IF 100 * strength[1] > 15 * 10 * strength[2] THEN 3
    ELSE IF 100 * strength[1] > 8 * 10 * strength[2] THEN 2
    ELSE IF 100 * strength[1] > 4 * 10 * strength[2] THEN 1
    ELSE 0

ResolutionBucket(frame) ==
    LET total == frame[Len(frame)].pressure - frame[1].pressure
        steps == Len(frame) - 1
    IN IF total < 5 * steps THEN 2 ELSE IF total < 10 * steps THEN 1 ELSE 0

ExpectedScore ==
    LevelsBucket(Len(arg.df)) + StrengthBucket(arg.strength) + ResolutionBucket(arg.df)

\* C14: the confidence is the sum of the levels, strength and resolution
\* buckets, reported as low below 4, medium from 4 to below 7, high from 7
C14_ConfidenceScore ==
    Called("_calculate_thermocline_confidence") =>
        ret.val = IF ExpectedScore < 4 THEN "low"
                  ELSE IF ExpectedScore < 7 THEN "medium"
                  ELSE "high"

\* a score of exactly 7, with the strength just above 0.15 and the spacing
\* just below 10 dbar
C14_Witness ==
    /\ Called("_calculate_thermocline_confidence")
    /\ Len(arg.df) = 51
    /\ arg.strength = <<151, 100>>
    /\ arg.df[2].pressure - arg.df[1].pressure = 9
    /\ ExpectedScore = 7
    /\ ret.val = "high"

\* the mean over the consecutive rows of g of |d col / d pressure| is
\* greater than num / den (col per dbar); the pressures of g increase
MeanGradientAbove(g, col, num, den) ==
    LET pairs == 2..Len(g)
        common == LcmOf({g[k].pressure - g[k - 1].pressure : k \in pairs})
        total == SumOver([k \in pairs |->
                            Abs(g[k][col] - g[k - 1][col])
                                * (common \div (g[k].pressure - g[k - 1].pressure))], pairs)
    IN total * den > num * common * Cardinality(pairs)

\* the label the fixed thresholds give: 0.1 and 0.05 degC per dbar are 1 and
\* 1/2 tenths of a degree, 0.05 and 0.02 PSU per dbar are 5 and 2 hundredths
ThresholdLabel(g) ==
    IF MeanGradientAbove(g, "temperature", 1, 1) \/ MeanGradientAbove(g, "salinity", 5, 1)
    THEN "strong_mixing"
    ELSE IF MeanGradientAbove(g, "temperature", 1, 2) \/ MeanGradientAbove(g, "salinity", 2, 1)
         THEN "moderate_mixing"
         ELSE "weak_mixing"

\* C19: the mixing strength of a zone is strong, moderate or weak, as the
\* fixed thresholds on the mean temperature and salinity gradients give it
C19_MixingStrengthLabel ==
    Called("_calculate_mixing_strength") => ret.val = ThresholdLabel(arg.gap_data)

\* C19, amended: the label is unknown for fewer than 3 measurements in the
\* zone, and otherwise strong, moderate or weak as the thresholds give it
C19_MixingStrengthOrUnknown ==
    Called("_calculate_mixing_strength") =>
        ret.val = IF Len(arg.gap_data) < 3 THEN "unknown" ELSE ThresholdLabel(arg.gap_data)

\* three measurements whose mean temperature gradient is exactly 0.05 and
\* whose mean salinity gradient is just above 0.02: moderate
C19_Witness ==
    /\ Called("_calculate_mixing_strength")
    /\ Len(arg.gap_data) = 3
    /\ arg.gap_data[1].temperature - arg.gap_data[3].temperature = 10
    /\ arg.gap_data[3].salinity - arg.gap_data[1].salinity = 41
    /\ ret.val = "moderate_mixing"

\* which categories the names of the list hold
MassNames == {arg.water_masses[k].name : k \in 1..Len(arg.water_masses)}
SurfaceDetected == "Indian Ocean Surface Water (IOSW)" \in MassNames
IntermediateDetected == "Antarctic Intermediate Water (AAIW)" \in MassNames
DeepOrBottomDetected ==
    "Indian Deep Water (IDW)" \in MassNames \/ "Antarctic Bottom Water (AABW)" \in MassNames

PriorityLabel ==
    IF SurfaceDetected /\ IntermediateDetected /\ DeepOrBottomDetected THEN "complete_stratification"
    ELSE IF SurfaceDetected /\ IntermediateDetected THEN "upper_ocean_stratification"
    ELSE IF SurfaceDetected /\ DeepOrBottomDetected THEN "two_layer_system"
    ELSE IF Len(arg.water_masses) >= 4 THEN "multi_layered"
    ELSE "simple_structure"

\* C20: for every list of detected water masses the label is complete,
\* upper-ocean, two-layer, multi-layered or simple, by the priority
\* surface + intermediate + deep, surface + intermediate, surface + deep,
\* four or more masses, else simple
C20_WaterColumnLabel ==
    Called("_classify_water_column") => ret.val.type = PriorityLabel

\* C20, amended: the same for every list that is not empty, and the label
\* unclassified for the empty list
C20_WaterColumnLabelNonEmpty ==
    Called("_classify_water_column") =>
        ret.val.type = IF arg.water_masses = <<>> THEN "unclassified" ELSE PriorityLabel

\* five masses with surface and deep water and no intermediate water:
\* two-layer, although there are four or more
C20_Witness ==
    /\ Called("_classify_water_column")
    /\ Len(arg.water_masses) = 5
    /\ SurfaceDetected /\ DeepOrBottomDetected /\ ~IntermediateDetected
    /\ ret.val.type = "two_layer_system"

----------------------------------------------------------------------------
(* Claim about the round trip through the archive *)

\* every profile of the table is normalised and every level carries a
\* salinity, so that no level is one the decoder skips
IsNormalizedTable ==
    /\ \A k \in 1..Len(Groups(table.rows)) : IsNormalized(Groups(table.rows)[k])
    /\ \A i \in 1..Len(table.rows) : table.rows[i].salinity # NaN

\* the decoded records of the k-th profile
DecodedProfile(k) ==
    LET key == KeyOf(Groups(table.rows)[k][1])
        Mine(r) == r.cycle_number = key[2]
    IN SelectSeq(decoded.rows, Mine)

SameMeasurement(orig, back) ==
    /\ back.pressure = orig.pressure
    /\ back.temperature = orig.temperature
    /\ back.salinity = orig.salinity
    /\ "temp_qc" \in table.columns => back.temp_qc = orig.temp_qc
    /\ "sal_qc" \in table.columns => back.sal_qc = orig.sal_qc
    /\ back.timestamp # NaN
    /\ Abs(back.timestamp - orig.timestamp) <= 1000

\* C5: decoding the archive written from normalised profiles gives back, for
\* each profile, the same number of levels with equal pressure, temperature
\* and salinity, identical QC flags and a timestamp within one second
C5_RoundTrip ==
    (decoded # None /\ archive # None /\ archive.returned /\ IsNormalizedTable) =>
        /\ ~decoded.raised
        /\ \A k \in 1..Len(Groups(table.rows)) :
              /\ Len(DecodedProfile(k)) = Len(Groups(table.rows)[k])
              /\ \A l \in 1..Len(Groups(table.rows)[k]) :
                    l <= Len(DecodedProfile(k)) =>
                        SameMeasurement(Groups(table.rows)[k][l], DecodedProfile(k)[l])

----------------------------------------------------------------------------
(* Claims about the decode call *)

\* a stored value that reads back as a number
IsNumber(v) == v # NaN /\ v # FloatFill

\* the (profile, level) cells of the archive whose pressure, temperature and
\* salinity are all numbers
NumberCells ==
    {c \in (1..archive.N_PROF) \X (1..archive.N_LEVELS) :
        /\ IsNumber(archive.PRES[c[1]][c[2]])
        /\ IsNumber(archive.TEMP[c[1]][c[2]])
        /\ IsNumber(archive.PSAL[c[1]][c[2]])}

\* position of the cell c among the number cells, profile index first
CellRank(c) ==
    1 + Cardinality({o \in NumberCells : o[1] < c[1] \/ (o[1] = c[1] /\ o[2] < c[2])})

HasLayout == archive # None /\ archive.has_dims /\ archive.has_vars

\* C16: the decoded records are exactly the cells in which pressure,
\* temperature and salinity are all numbers, one record per cell whatever
\* its QC flags, in the order profile index, then level index
C16_OneRecordPerNumberCell ==
    (decoded # None /\ HasLayout) =>
        /\ ~decoded.raised
        /\ Len(decoded.rows) = Cardinality(NumberCells)
        /\ \A c \in NumberCells :
              LET r == decoded.rows[CellRank(c)]
              IN /\ r.pressure = archive.PRES[c[1]][c[2]]
                 /\ r.temperature = archive.TEMP[c[1]][c[2]]
                 /\ r.salinity = archive.PSAL[c[1]][c[2]]
                 /\ archive.JULD[c[1]] # JuldFill => r.timestamp = archive.JULD[c[1]]

\* two profiles, a level without salinity, a level with a masked QC flag that
\* is still decoded, and a cell that was never written
C16_Witness ==
    /\ decoded # None /\ HasLayout
    /\ archive.N_PROF >= 2
    /\ \E c \in (1..archive.N_PROF) \X (1..archive.N_LEVELS) :
          archive.PSAL[c[1]][c[2]] = NaN /\ IsNumber(archive.PRES[c[1]][c[2]])
    /\ \E c \in (1..archive.N_PROF) \X (1..archive.N_LEVELS) :
          archive.PRES[c[1]][c[2]] = FloatFill
    /\ \E c \in NumberCells :
          archive.TEMP_QC[c[1]][c[2]] = QcFill /\ archive.PSAL_QC[c[1]][c[2]] # QcFill
    /\ \E k \in 1..Len(decoded.rows) : decoded.rows[k].cycle_number = 2

\* the decode call ended with an explicit failure that names the archive as
\* unreadable, and no exception
IsUnreadableFailure(out) ==
    /\ ~out.raised
    /\ "unreadable" \in DOMAIN out
    /\ out.unreadable

\* C17: a decode call on an archive that cannot be opened ends with an
\* explicit archive-unreadable failure; on an opened archive that lacks a
\* required dimension or variable it returns an empty or partial result and
\* no exception escapes
C17_DecodeFailures ==
    decoded # None =>
        /\ archive = None => IsUnreadableFailure(decoded)
        /\ (archive # None /\ ~HasLayout) => ~decoded.raised

\* C18: once a decode call has returned or raised, the dataset handle it
\* opened is closed, whichever decode path was taken
C18_HandleClosed ==
    (decoded # None /\ ds # None) => ds = Handle("closed")

----------------------------------------------------------------------------
(* Claims about the dimensions of the exported file *)

\* C24: a non-empty table without float_id or without cycle_number is
\* exported successfully, as one profile
C24_SingleProfileFallback ==
    (/\ archive # None
     /\ table.rows # <<>>
     /\ ~("float_id" \in table.columns /\ "cycle_number" \in table.columns))
        => /\ archive.returned
           /\ archive.has_dims
           /\ archive.N_PROF = 1

\* the rows of the table in the profile group of its i-th row
GroupOfRow(i) ==
    {j \in 1..Len(table.rows) :
        /\ table.rows[j].float_id = table.rows[i].float_id
        /\ table.rows[j].cycle_number = table.rows[i].cycle_number}

\* C29: the N_LEVELS dimension is at least the number of rows that every
\* profile group writes, missing pressures and unequal profiles included
C29_LevelsDimensionFits ==
    (archive # None /\ archive.has_dims) =>
        /\ archive.returned
        /\ \A i \in 1..Len(table.rows) : Cardinality(GroupOfRow(i)) <= archive.N_LEVELS

----------------------------------------------------------------------------
(* Claims about the tool protocol and about the loader *)

\* C25: a tool call never raises; its result has isError False exactly when
\* the tool is registered and its handler returned normally; a result built
\* without isError has isError False; to_dict() carries isError as the
\* field holds it
C25_CallToolNeverRaises ==
    [][response' # response =>
          /\ ~response'.raised
          /\ response'.dict.isError = response'.result[2]
          /\ response'.op = "MCPToolResult" =>
                 (response'.given = None => response'.result[2] = FALSE)
          /\ response'.op = "call_tool" =>
                 ((response'.result[2] = FALSE)
                      <=> tool_handlers[response'.name]
                              \in {"returns_dict", "returns_str", "returns_dict_with_timestamp"})]_vars

\* C30: the loader commits batch by batch in file order; when saving batch k
\* fails the rows of the batches before k stay committed and no other row
\* is, the session is rolled back and closed and nothing is raised; when no
\* batch fails every row is committed and the session is closed
C30_BatchByBatchCommit ==
    (load_result # None /\ csv.readable) =>
        /\ ~load_result.outcome.raised
        /\ session.state = "closed"
        /\ session.pending = <<>>
        /\ IF csv.fault = None
           THEN db = csv.rows
           ELSE /\ db = SubSeq(csv.rows, 1, (csv.fault.batch - 1) * csv.batch_size)
                /\ session.rolled_back

\* the commit of a batch after the first failed: the earlier batches are in
\* the database, the rest of the file is not
C30_Witness ==
    /\ load_result # None /\ csv.readable
    /\ csv.fault # None /\ csv.fault.batch >= 2 /\ csv.fault.at = "commit"
    /\ Len(db) > 0
    /\ Len(db) < Len(csv.rows)
    /\ session.state = "closed" /\ session.rolled_back

====
